---- MODULE Spec2Model ----
(***************************************************************************)
(* Verification model of the nomad-forematics schema package: the save-time *)
(* normalize hooks of ForematicsSubstrate, ForematicsSubstrateBatch and     *)
(* ForOPVSolution.                                                          *)
(*                                                                          *)
(* Conventions                                                              *)
(*   - A quantity that may be unset (Python None) is a sequence of length   *)
(*     at most one: None == << >>, a set value v is << v >>.                *)
(*   - Lengths are integers in micrometres (0.075 m = 75000).               *)
(*   - Python strings are TLA+ strings; f-string formatting is PyStr.       *)
(***************************************************************************)
EXTENDS Integers, Sequences, FiniteSets, TLC

VARIABLES
    substrates,      \* id -> the fields of a ForematicsSubstrate entry
    subNormalized,   \* id -> normalize has run on it and no edit came since
    subBefore,       \* id -> the fields the latest normalize call started from
    batch,           \* the fields of the ForematicsSubstrateBatch entry
    entities,        \* batch.entities: the list of reference sections
    createCalls,     \* the create_archive calls that returned in the latest normalize call
    nextObj,         \* number of reference sections allocated so far
    batchOutcome,    \* how the latest batch normalize call ended
    lastTriggered,   \* the latest normalize call that saw a true trigger
    hostDeclaresDoping, \* do the host base classes declare the doping fields
    solution,        \* the fields of the ForOPVSolution entry
    printString,     \* the print_string list of the latest calculation
    computed,        \* per line of print_string: the quantity it was made from
    divisions,       \* the divisions the latest calculation performed
    solutionOutcome, \* how the latest solution normalize call ended
    cleaning,        \* the procedure mode and the steps of a cleaning record
    cleaningOutcome, \* how the latest cleaning normalize call ended
    childTargets,    \* per entry of a batch's child list: what its reference is
    searchTotal,     \* substrate -> pagination.total the search index answers
    lookup,          \* the results of the latest plain and negated lookups
    archive,         \* the sections m_traverse yields, in traversal order
    batchEntities,   \* substrate batch entry -> its child list
    archiveBefore,   \* archive as the latest processing normalize call found it
    visited,         \* the sections that call took for processing-step references
    processingOutcome, \* how the latest processing normalize call ended
    proxyReadsTarget \* does reading .reference on a proxy give its target

vars == << substrates, subNormalized, subBefore, batch, entities, createCalls, nextObj,
           batchOutcome, lastTriggered, hostDeclaresDoping,
           solution, printString, computed, divisions, solutionOutcome,
           cleaning, cleaningOutcome, childTargets, searchTotal, lookup,
           archive, batchEntities, archiveBefore, visited, processingOutcome,
           proxyReadsTarget >>

substrateVars == << substrates, subNormalized, subBefore >>
batchVars == << batch, entities, createCalls, nextObj, batchOutcome,
                lastTriggered, hostDeclaresDoping >>
solutionVars == << solution, printString, computed, divisions, solutionOutcome >>
cleaningVars == << cleaning, cleaningOutcome >>
lookupVars == << childTargets, searchTotal, lookup >>
processingVars == << archive, batchEntities, archiveBefore, visited,
                     processingOutcome, proxyReadsTarget >>
restVars == << cleaningVars, lookupVars, processingVars >>

None == << >>
Some(v) == << v >>

(***************************************************************************)
(* Bounds of the model.                                                     *)
(***************************************************************************)
MaxCount == 3
MaxObj == 5
MaxComponents == 3
MaxSteps == 2
MaxChildren == 3
MaxTotal == 2
MaxSections == 2

(***************************************************************************)
(* ForematicsSubstrate                                                      *)
(***************************************************************************)
CoveragePatterns == {"Patterned", "Full", "None"}
CoverageMaterials == {"ITO", "FTO", "None"}
SubstrateSizes == {"Scale-up", "Spin-coating", "Glass slide"}

\* A (length, width, thickness) triple.
Dims(l, w, t) == [length |-> l, width |-> w, thickness |-> t]

\* The Quantity defaults of a freshly constructed ForematicsSubstrate().
NewSubstrate ==
    [substrate_coverage_pattern |-> "Full",
     substrate_coverage_material |-> "ITO",
     substrate_size |-> "Scale-up",
     length |-> 75000, width |-> 25000, thickness |-> 1100]

\* Mutant: the 'Spin-coating' branch assigns length and width crosswise.
SubstrateNormalizeSwapped(s) ==
    LET m == IF s.substrate_coverage_pattern = "None"
             THEN [s EXCEPT !.substrate_coverage_material = "None"]
             ELSE s
    IN  IF m.substrate_size = "Scale-up"
        THEN [m EXCEPT !.width = 25000, !.length = 75000, !.thickness = 1100]
        ELSE IF m.substrate_size = "Spin-coating"
        THEN [m EXCEPT !.width = 20000, !.length = 10000, !.thickness = 1100]
        ELSE IF m.substrate_size = "Glass slide"
        THEN [m EXCEPT !.width = 26000, !.length = 76000, !.thickness = 1100]
        ELSE m

\* Mutant: normalize without the coverage rule of lines 110-111.
SubstrateNormalizeKeepsMaterial(s) ==
    IF s.substrate_size = "Scale-up"
    THEN [s EXCEPT !.width = 25000, !.length = 75000, !.thickness = 1100]
    ELSE IF s.substrate_size = "Spin-coating"
    THEN [s EXCEPT !.width = 10000, !.length = 20000, !.thickness = 1100]
    ELSE IF s.substrate_size = "Glass slide"
    THEN [s EXCEPT !.width = 26000, !.length = 76000, !.thickness = 1100]
    ELSE s

\* ForematicsSubstrate.normalize: the fields of s after the call.
SubstrateNormalized(s) ==
    LET m == IF s.substrate_coverage_pattern = "None"
             THEN [s EXCEPT !.substrate_coverage_material = "None"]
             ELSE s
    IN  IF m.substrate_size = "Scale-up"
        THEN [m EXCEPT !.width = 25000, !.length = 75000, !.thickness = 1100]
        ELSE IF m.substrate_size = "Spin-coating"
        THEN [m EXCEPT !.width = 10000, !.length = 20000, !.thickness = 1100]
        ELSE IF m.substrate_size = "Glass slide"
        THEN [m EXCEPT !.width = 26000, !.length = 76000, !.thickness = 1100]
        ELSE m

SubstrateIds == {"s1", "s2"}

\* Dimension triples a user types into the three NumberEditQuantity fields.
EditedDims == { Dims(40000, 40000, 675), Dims(20000, 10000, 1100),
                Dims(76000, 25000, 1100) }

\* The ELN user picks another coverage pattern.
EditPattern(i, p) ==
    /\ substrates' = [substrates EXCEPT ![i].substrate_coverage_pattern = p]
    /\ subNormalized' = [subNormalized EXCEPT ![i] = FALSE]
    /\ subBefore' = [subBefore EXCEPT ![i] = NewSubstrate]
    /\ UNCHANGED << batchVars, solutionVars, restVars >>

\* The ELN user picks another coverage material.
EditMaterial(i, c) ==
    /\ substrates' = [substrates EXCEPT ![i].substrate_coverage_material = c]
    /\ subNormalized' = [subNormalized EXCEPT ![i] = FALSE]
    /\ subBefore' = [subBefore EXCEPT ![i] = NewSubstrate]
    /\ UNCHANGED << batchVars, solutionVars, restVars >>

\* The ELN user picks another size category.
EditSize(i, z) ==
    /\ substrates' = [substrates EXCEPT ![i].substrate_size = z]
    /\ subNormalized' = [subNormalized EXCEPT ![i] = FALSE]
    /\ subBefore' = [subBefore EXCEPT ![i] = NewSubstrate]
    /\ UNCHANGED << batchVars, solutionVars, restVars >>

\* The ELN user types other dimensions.
EditDims(i, d) ==
    /\ substrates' = [substrates EXCEPT ![i].length = d.length,
                                        ![i].width = d.width,
                                        ![i].thickness = d.thickness]
    /\ subNormalized' = [subNormalized EXCEPT ![i] = FALSE]
    /\ subBefore' = [subBefore EXCEPT ![i] = NewSubstrate]
    /\ UNCHANGED << batchVars, solutionVars, restVars >>

\* The host saves substrate entry i and runs its normalize hook.
SubstrateNormalize(i) ==
    /\ substrates' = [substrates EXCEPT ![i] = SubstrateNormalized(substrates[i])]
    /\ subNormalized' = [subNormalized EXCEPT ![i] = TRUE]
    /\ subBefore' = [subBefore EXCEPT ![i] = substrates[i]]
    /\ UNCHANGED << batchVars, solutionVars, restVars >>

SubstrateNext ==
    \E i \in SubstrateIds :
        \/ \E p \in CoveragePatterns : EditPattern(i, p)
        \/ \E c \in CoverageMaterials : EditMaterial(i, c)
        \/ \E z \in SubstrateSizes : EditSize(i, z)
        \/ \E d \in EditedDims : EditDims(i, d)
        \/ SubstrateNormalize(i)


(***************************************************************************)
(* ForematicsSubstrateBatch                                                 *)
(***************************************************************************)
\* str(x) of an f-string field: an unset quantity formats as 'None'.
PyStr(opt) == IF opt = None THEN "None" ELSE opt[1]

\* Python truthiness of the bool quantity create_substrates.
Truthy(flag) == flag = "True"

\* The number of iterations of `for i in range(n)`.
RangeLen(n) == IF n < 0 THEN 0 ELSE n

\* Line 275: substrate.name = f'{self.name} {i}'.
ChildName(b, i) == PyStr(b.name) \o " " \o ToString(i)

\* Line 277: substrate.lab_id = f'{self.lab_id}-{i}'.
ChildLabId(b, i) == PyStr(b.lab_id) \o "-" \o ToString(i)

\* Line 278: file_name = f'{substrate.lab_id}.archive.json'.
FileName(lab_id) == lab_id \o ".archive.json"

\* Lines 244-272: the template substrate, built once before the loop. Its
\* geometry sub-section takes the batch's dimensions; its own length, width
\* and thickness are then set by ForematicsSubstrate.normalize.
TemplateSubstrate(b) ==
    LET fresh == [substrate_coverage_pattern |-> NewSubstrate.substrate_coverage_pattern,
                  substrate_coverage_material |-> NewSubstrate.substrate_coverage_material,
                  substrate_size |-> NewSubstrate.substrate_size,
                  length |-> NewSubstrate.length,
                  width |-> NewSubstrate.width,
                  thickness |-> NewSubstrate.thickness,
                  geometry |-> [length |-> b.length, width |-> b.width,
                                height |-> b.thickness],
                  supplier |-> b.supplier,
                  name |-> None,
                  lab_id |-> None]
    IN  SubstrateNormalized(fresh)

\* Line 279: create_archive writes the entry file and returns a reference
\* to the entry of that file.
ArchiveReference(file_name) == [mainfile |-> file_name]

\* Mutant: the file name is built from the batch's lab_id, not the child's,
\* so every child of one expansion is written to the same file.
LoopBodySharedFile(b, st, i) ==
    LET sub == [st.substrate EXCEPT !.name = Some(ChildName(b, i)),
                                    !.lab_id = Some(ChildLabId(b, i))]
        file_name == FileName(PyStr(b.lab_id))
        substrate_archive == ArchiveReference(file_name)
    IN  [substrate |-> sub,
         entities |-> Append(st.entities,
                             [obj |-> st.nextObj,
                              reference |-> substrate_archive,
                              name |-> sub.name[1],
                              lab_id |-> sub.lab_id[1]]),
         calls |-> Append(st.calls, [file_name |-> file_name, entity |-> sub]),
         nextObj |-> st.nextObj + 1]

\* Lines 275-286: one iteration of the loop. st holds the template
\* substrate, the entities list, the create_archive calls and the number of
\* reference sections allocated.
LoopBody(b, st, i) ==
    LET sub == [st.substrate EXCEPT !.name = Some(ChildName(b, i)),
                                    !.lab_id = Some(ChildLabId(b, i))]
        file_name == FileName(sub.lab_id[1])
        substrate_archive == ArchiveReference(file_name)
    IN  [substrate |-> sub,
         entities |-> Append(st.entities,
                             [obj |-> st.nextObj,
                              reference |-> substrate_archive,
                              name |-> sub.name[1],
                              lab_id |-> sub.lab_id[1]]),
         calls |-> Append(st.calls, [file_name |-> file_name, entity |-> sub]),
         nextObj |-> st.nextObj + 1]

\* Lines 274-286: iterations i, i+1, ..., n-1 of the loop.
RECURSIVE RunLoop(_, _, _, _)
RunLoop(b, st, i, n) ==
    IF i >= n THEN st ELSE RunLoop(b, LoopBody(b, st, i), i + 1, n)

Triggered == Some([count |-> batch.number_of_substrates,
                   before |-> { entities[k].obj : k \in 1..Len(entities) }])

\* normalize with create_substrates unset or false: line 242 is not taken.
BatchNormalizeSkip ==
    /\ ~Truthy(batch.create_substrates)
    /\ batchOutcome' = "skipped"
    /\ createCalls' = << >>
    /\ UNCHANGED << batch, entities, nextObj, lastTriggered, hostDeclaresDoping >>
    /\ UNCHANGED << substrateVars, solutionVars, restVars >>

\* normalize with create_substrates true where the batch has no attribute
\* doping_elements: line 243 has emptied the list, line 261 raises.
BatchNormalizeAttributeError ==
    /\ Truthy(batch.create_substrates)
    /\ ~hostDeclaresDoping
    /\ entities' = << >>
    /\ createCalls' = << >>
    /\ batchOutcome' = "AttributeError"
    /\ lastTriggered' = Triggered
    /\ UNCHANGED << batch, nextObj, hostDeclaresDoping >>
    /\ UNCHANGED << substrateVars, solutionVars, restVars >>

\* normalize with create_substrates true and number_of_substrates unset:
\* line 243 has emptied the list, range(None) at line 274 raises.
BatchNormalizeTypeError ==
    /\ Truthy(batch.create_substrates)
    /\ hostDeclaresDoping
    /\ batch.number_of_substrates = None
    /\ entities' = << >>
    /\ createCalls' = << >>
    /\ batchOutcome' = "TypeError"
    /\ lastTriggered' = Triggered
    /\ UNCHANGED << batch, nextObj, hostDeclaresDoping >>
    /\ UNCHANGED << substrateVars, solutionVars, restVars >>

\* normalize with create_substrates true, running to its last line.
BatchNormalizeCreate ==
    /\ Truthy(batch.create_substrates)
    /\ hostDeclaresDoping
    /\ batch.number_of_substrates # None
    /\ nextObj + RangeLen(batch.number_of_substrates[1]) <= MaxObj
    /\ LET st == RunLoop(batch,
                         [substrate |-> TemplateSubstrate(batch),
                          entities |-> << >>,
                          calls |-> << >>,
                          nextObj |-> nextObj],
                         0, batch.number_of_substrates[1])
       IN  /\ entities' = st.entities
           /\ createCalls' = st.calls
           /\ nextObj' = st.nextObj
    /\ batch' = [batch EXCEPT !.create_substrates = "False"]
    /\ batchOutcome' = "returned"
    /\ lastTriggered' = Triggered
    /\ UNCHANGED hostDeclaresDoping
    /\ UNCHANGED << substrateVars, solutionVars, restVars >>

\* normalize with create_substrates true where create_archive returns for
\* the children 0 .. k-1 and then handles the failure of child k by
\* itself: the loop ends and line 287 resets the trigger.
BatchNormalizePersistenceHandled(k) ==
    /\ Truthy(batch.create_substrates)
    /\ hostDeclaresDoping
    /\ batch.number_of_substrates # None
    /\ k \in 0..(batch.number_of_substrates[1] - 1)
    /\ nextObj + k <= MaxObj
    /\ LET st == RunLoop(batch,
                         [substrate |-> TemplateSubstrate(batch),
                          entities |-> << >>,
                          calls |-> << >>,
                          nextObj |-> nextObj],
                         0, k)
       IN  /\ entities' = st.entities
           /\ createCalls' = st.calls
           /\ nextObj' = st.nextObj
    /\ batch' = [batch EXCEPT !.create_substrates = "False"]
    /\ batchOutcome' = "returned"
    /\ lastTriggered' = Triggered
    /\ UNCHANGED hostDeclaresDoping
    /\ UNCHANGED << substrateVars, solutionVars, restVars >>

\* normalize with create_substrates true where create_archive returns for
\* the children 0 .. k-1 and raises for child k: line 279 is left by the
\* exception, lines 280-287 are not reached for child k.
BatchNormalizePersistenceError(k) ==
    /\ Truthy(batch.create_substrates)
    /\ hostDeclaresDoping
    /\ batch.number_of_substrates # None
    /\ k \in 0..(batch.number_of_substrates[1] - 1)
    /\ nextObj + k <= MaxObj
    /\ LET st == RunLoop(batch,
                         [substrate |-> TemplateSubstrate(batch),
                          entities |-> << >>,
                          calls |-> << >>,
                          nextObj |-> nextObj],
                         0, k)
       IN  /\ entities' = st.entities
           /\ createCalls' = st.calls
           /\ nextObj' = st.nextObj
    /\ batchOutcome' = "PersistenceError"
    /\ lastTriggered' = Triggered
    /\ UNCHANGED << batch, hostDeclaresDoping >>
    /\ UNCHANGED << substrateVars, solutionVars, restVars >>

\* The host saves the batch entry and runs its normalize hook.
BatchNormalize ==
    \/ BatchNormalizeSkip
    \/ BatchNormalizeAttributeError
    \/ BatchNormalizeTypeError
    \/ BatchNormalizeCreate
    \/ \E k \in 0..(MaxCount - 1) : BatchNormalizePersistenceError(k)

\* The ELN user ticks or unticks the create_substrates box.
SetCreate(v) ==
    /\ batch' = [batch EXCEPT !.create_substrates = v]
    /\ batchOutcome' = "idle"
    /\ UNCHANGED << entities, createCalls, nextObj, lastTriggered, hostDeclaresDoping >>
    /\ UNCHANGED << substrateVars, solutionVars, restVars >>

\* The ELN user types the number of substrates.
SetCount(n) ==
    /\ batch' = [batch EXCEPT !.number_of_substrates = Some(n)]
    /\ batchOutcome' = "idle"
    /\ UNCHANGED << entities, createCalls, nextObj, lastTriggered, hostDeclaresDoping >>
    /\ UNCHANGED << substrateVars, solutionVars, restVars >>

\* The ELN user types the batch's name and lab_id.
SetIdentity(nm, id) ==
    /\ batch' = [batch EXCEPT !.name = nm, !.lab_id = id]
    /\ batchOutcome' = "idle"
    /\ UNCHANGED << entities, createCalls, nextObj, lastTriggered, hostDeclaresDoping >>
    /\ UNCHANGED << substrateVars, solutionVars, restVars >>

\* The ELN user types the batch's dimensions.
SetBatchDims(d) ==
    /\ batch' = [batch EXCEPT !.length = d.length, !.width = d.width,
                              !.thickness = d.thickness]
    /\ batchOutcome' = "idle"
    /\ UNCHANGED << entities, createCalls, nextObj, lastTriggered, hostDeclaresDoping >>
    /\ UNCHANGED << substrateVars, solutionVars, restVars >>

\* The ELN user appends a reference section to the entities list by hand.
AddEntity ==
    /\ nextObj < MaxObj
    /\ Len(entities) < MaxCount
    /\ entities' = Append(entities,
                          [obj |-> nextObj,
                           reference |-> ArchiveReference("other.archive.json"),
                           name |-> "other",
                           lab_id |-> "other"])
    /\ nextObj' = nextObj + 1
    /\ batchOutcome' = "idle"
    /\ lastTriggered' = None
    /\ UNCHANGED << batch, createCalls, hostDeclaresDoping >>
    /\ UNCHANGED << substrateVars, solutionVars, restVars >>

BatchNames == { None, Some("Batch") }
BatchLabIds == { None, Some("B") }
BatchDims == { Dims(40000, 40000, 675), Dims(75000, 25000, 1100) }

BatchNext ==
    \/ BatchNormalize
    \/ \E v \in {"True", "False"} : SetCreate(v)
    \/ \E n \in -1..MaxCount : SetCount(n)
    \/ \E nm \in BatchNames, id \in BatchLabIds : SetIdentity(nm, id)
    \/ \E d \in BatchDims : SetBatchDims(d)
    \/ AddEntity


(***************************************************************************)
(* Numbers of the solution calculation                                      *)
(*                                                                          *)
(* A float is modelled by the exact rational it stands for, a record        *)
(* [num, den] in lowest terms with den > 0. The two results float64         *)
(* division by zero can give are kept with den = 0: [num |-> 1, den |-> 0]  *)
(* is inf and [num |-> 0, den |-> 0] is nan. Ratios, volumes and            *)
(* concentrations are non-negative.                                         *)
(***************************************************************************)
RECURSIVE GCD(_, _)
GCD(a, b) == IF b = 0 THEN a ELSE GCD(b, a % b)

\* The rational n / d for n >= 0, d >= 0; d = 0 gives inf or nan.
Rat(n, d) ==
    IF d = 0 THEN [num |-> IF n = 0 THEN 0 ELSE 1, den |-> 0]
    ELSE LET g == GCD(n, d) IN [num |-> n \div g, den |-> d \div g]

IsFinite(q) == q.den # 0

RECURSIVE Pow10(_)
Pow10(k) == IF k = 0 THEN 1 ELSE 10 * Pow10(k - 1)

\* q * 10^k as a rational, for a finite q and any integer k.
RECURSIVE Scale10(_, _)
Scale10(q, k) ==
    IF k = 0 THEN q
    ELSE IF k > 0
    THEN LET g == GCD(10, q.den)
         IN  Scale10(Rat(q.num * (10 \div g), q.den \div g), k - 1)
    ELSE LET g == GCD(q.num, 10)
         IN  Scale10(Rat(q.num \div g, q.den * (10 \div g)), k + 1)

\* The decimal exponent of a finite q > 0: the e with 10^e <= q < 10^(e+1),
\* searched from e, where lo is q / 10^e.
RECURSIVE Exp10From(_, _, _)
Exp10From(q, e, lo) ==
    IF lo.num < lo.den THEN Exp10From(q, e - 1, Scale10(q, 1 - e))
    ELSE IF lo.num >= 10 * lo.den THEN Exp10From(q, e + 1, Scale10(q, -e - 1))
    ELSE e

Exp10(q) == Exp10From(q, 0, q)

\* The integer nearest to f + r / d (0 <= r < d), ties to even.
NearestEven(f, r, d) ==
    IF 2 * r < d THEN f
    ELSE IF 2 * r > d THEN f + 1
    ELSE IF f % 2 = 0 THEN f ELSE f + 1

\* The integer nearest to a finite q >= 0, ties to even.
RoundHalfEven(q) == NearestEven(q.num \div q.den, q.num % q.den, q.den)

\* A six-digit mantissa that rounding carried to 1000000 is 100000 with
\* the exponent raised by one.
Carry(m, e) ==
    IF m = 1000000 THEN [m |-> 100000, e |-> e + 1] ELSE [m |-> m, e |-> e]

\* A finite q > 0 rounded to six significant digits: the six-digit
\* mantissa m and the exponent e of its leading digit (m * 10^(e-5)).
SixDigitsAt(q, e) == Carry(RoundHalfEven(Scale10(q, 5 - e)), e)

SixDigits(q) == SixDigitsAt(q, Exp10(q))

ShownDigits(s) == Scale10(Rat(s.m, 1), s.e - 5)

\* The number a '.6g' rendering of q denotes.
Shown(q) ==
    IF ~IsFinite(q) \/ q.num = 0 THEN q ELSE ShownDigits(SixDigits(q))

\* n written with exactly w decimal digits (leading zeros kept).
RECURSIVE Pad(_, _)
Pad(n, w) == IF w = 0 THEN "" ELSE Pad(n \div 10, w - 1) \o ToString(n % 10)

\* m with its trailing zeros removed, and the number k of digits left.
RECURSIVE Strip(_, _)
Strip(m, k) ==
    IF k > 1 /\ m % 10 = 0 THEN Strip(m \div 10, k - 1) ELSE [m |-> m, k |-> k]

\* The k digits of m, the first of them of weight 10^e, the way '%g'
\* writes them: in exponent form for e < -4 or e >= 6, else in plain form.
FmtDigits(m, k, e) ==
    IF e < -4 \/ e >= 6
    THEN (IF k = 1 THEN ToString(m)
          ELSE ToString(m \div Pow10(k - 1)) \o "." \o Pad(m % Pow10(k - 1), k - 1))
         \o "e" \o (IF e < 0 THEN "-" ELSE "+")
         \o Pad(IF e < 0 THEN -e ELSE e, 2)
    ELSE IF e >= k - 1
    THEN ToString(m * Pow10(e - k + 1))
    ELSE IF e >= 0
    THEN ToString(m \div Pow10(k - 1 - e)) \o "."
         \o Pad(m % Pow10(k - 1 - e), k - 1 - e)
    ELSE "0." \o Pad(m, k - e - 1)

FmtStripped(d, e) == FmtDigits(d.m, d.k, e)

FmtSix(s) == FmtStripped(Strip(s.m, 6), s.e)

\* format(x, '.6g') of a non-negative float.
Fmt6g(q) ==
    IF ~IsFinite(q) THEN (IF q.num = 0 THEN "nan" ELSE "inf")
    ELSE IF q.num = 0 THEN "0"
    ELSE FmtSix(SixDigits(q))

(***************************************************************************)
(* ForOPVSolution                                                           *)
(*                                                                          *)
(* total_volume is an integer number of microlitres (0.0006 l = 600),       *)
(* solute_concentration an integer number of g/l (= mg/ml), a ratio a       *)
(* natural number and liquid_percent a rational or unset.                   *)
(***************************************************************************)
\* sum(c.ratio for c in components)
RECURSIVE SumRatios(_)
SumRatios(components) ==
    IF components = << >> THEN 0
    ELSE Head(components).ratio + SumRatios(Tail(components))

\* '<br />'.join(lines)
RECURSIVE Join(_)
Join(lines) ==
    IF lines = << >> THEN ""
    ELSE IF Len(lines) = 1 THEN lines[1]
    ELSE lines[1] \o "<br />" \o Join(Tail(lines))

\* The accumulator of one calculation: print_string, and beside it the
\* quantity each line was made from, the divisions performed so far and
\* the exception raised, if any.
NoLines == [lines |-> << >>, values |-> << >>, divs |-> << >>, error |-> "none"]

\* Placeholder with its line left out.
PlaceholderOmitted(acc, kind, text) == acc

\* A line that reports no quantity.
Placeholder(acc, kind, text) ==
    [acc EXCEPT !.lines = Append(@, text),
                !.values = Append(@, [kind |-> kind, index |-> 0,
                                      value |-> Rat(0, 1)])]

\* Lines 211-213, 223-225, 231-233 and 240-242: the quotient n / d of one
\* component and its line. The quantities are numpy.float64, so a zero
\* divisor gives nan or inf and raises nothing.
Divide(acc, kind, index, n, d, label, unit, name) ==
    [acc EXCEPT
        !.divs = Append(@, [kind |-> kind, divisor |-> d]),
        !.lines = Append(@, label \o ": " \o PyStr(name) \o " -> "
                            \o Fmt6g(Rat(n, d)) \o " " \o unit),
        !.values = Append(@, [kind |-> kind, index |-> index,
                              value |-> Rat(n, d)])]

\* Lines 210-213: the loop over the solvents, from solvent i on.
\* solvent_volume = total_volume * ratio / total_solvent_ratio, in ml.
RECURSIVE SolventLoop(_, _, _, _)
SolventLoop(sol, acc, i, total_solvent_ratio) ==
    IF i > Len(sol.solvents) \/ acc.error # "none" THEN acc
    ELSE LET solvent == sol.solvents[i]
             next == Divide(acc, "solvent", i,
                            sol.total_volume * solvent.ratio,
                            total_solvent_ratio * 1000,
                            "Solvent", "ml", solvent.name)
         IN  SolventLoop(sol, next, i + 1, total_solvent_ratio)

\* _calculate_solvent_strings dividing by the number of solvents instead
\* of by the sum of their ratios.
CalculateSolventStringsByCount(sol, acc) ==
    IF sol.solvents = << >>
    THEN Placeholder(acc, "solvent", "No solvent components defined")
    ELSE SolventLoop(sol, acc, 1, Len(sol.solvents))

\* ForOPVSolution._calculate_solvent_strings
CalculateSolventStrings(sol, acc) ==
    IF sol.solvents = << >>
    THEN Placeholder(acc, "solvent", "No solvent components defined")
    ELSE SolventLoop(sol, acc, 1, SumRatios(sol.solvents))

\* Lines 222-225 and 230-233: the loop over the donors or the acceptors.
\* osc_mg = total_osc_mg * ratio / total_osc_ratio, where total_osc_mg is
\* solute_concentration [mg/ml] * total_volume [ml].
RECURSIVE OscLoop(_, _, _, _, _, _, _)
OscLoop(sol, components, kind, label, acc, i, total_osc_ratio) ==
    IF i > Len(components) \/ acc.error # "none" THEN acc
    ELSE LET osc == components[i]
             next == Divide(acc, kind, i,
                            sol.solute_concentration * sol.total_volume * osc.ratio,
                            total_osc_ratio * 1000,
                            label, "mg", osc.name)
         IN  OscLoop(sol, components, kind, label, next, i + 1, total_osc_ratio)

\* _calculate_osc_strings dividing each list by its own ratio sum instead
\* of by the sum over both lists.
CalculateOscStringsPerList(sol, acc) ==
    LET afterDonors ==
            IF sol.donors = << >>
            THEN Placeholder(acc, "donor", "No donor components defined")
            ELSE OscLoop(sol, sol.donors, "donor", "Donor", acc, 1,
                         SumRatios(sol.donors))
    IN  IF sol.acceptors = << >>
        THEN Placeholder(afterDonors, "acceptor", "No acceptor components defined")
        ELSE OscLoop(sol, sol.acceptors, "acceptor", "Acceptor", afterDonors, 1,
                     SumRatios(sol.acceptors))

\* _calculate_osc_strings counting every acceptor as ratio 1 in the
\* combined sum.
CalculateOscStringsAcceptorsCounted(sol, acc) ==
    LET total_osc_ratio == SumRatios(sol.donors) + Len(sol.acceptors)
        afterDonors ==
            IF sol.donors = << >>
            THEN Placeholder(acc, "donor", "No donor components defined")
            ELSE OscLoop(sol, sol.donors, "donor", "Donor", acc, 1,
                         total_osc_ratio)
    IN  IF sol.acceptors = << >>
        THEN Placeholder(afterDonors, "acceptor", "No acceptor components defined")
        ELSE OscLoop(sol, sol.acceptors, "acceptor", "Acceptor", afterDonors, 1,
                     total_osc_ratio)

\* ForOPVSolution._calculate_osc_strings
CalculateOscStrings(sol, acc) ==
    LET total_osc_ratio == SumRatios(sol.donors) + SumRatios(sol.acceptors)
        afterDonors ==
            IF sol.donors = << >>
            THEN Placeholder(acc, "donor", "No donor components defined")
            ELSE OscLoop(sol, sol.donors, "donor", "Donor", acc, 1,
                         total_osc_ratio)
    IN  IF afterDonors.error # "none" THEN afterDonors
        ELSE IF sol.acceptors = << >>
        THEN Placeholder(afterDonors, "acceptor", "No acceptor components defined")
        ELSE OscLoop(sol, sol.acceptors, "acceptor", "Acceptor", afterDonors, 1,
                     total_osc_ratio)

\* Lines 239-242: the loop over the additives, from additive i on.
\* additive_volume = liquid_percent / 100 * total_volume, in microlitres;
\* an unset liquid_percent makes None / 100 raise TypeError.
RECURSIVE AdditiveLoop(_, _, _)
AdditiveLoop(sol, acc, i) ==
    IF i > Len(sol.additives) \/ acc.error # "none" THEN acc
    ELSE LET additive == sol.additives[i]
             next ==
                 IF additive.liquid_percent = None
                 THEN [acc EXCEPT !.error = "TypeError"]
                 ELSE Divide(acc, "additive", i,
                             additive.liquid_percent[1].num * sol.total_volume,
                             additive.liquid_percent[1].den * 100,
                             "Additive", "ul", additive.name)
         IN  AdditiveLoop(sol, next, i + 1)

\* _calculate_additive_strings giving every additive the liquid_percent
\* of the first one.
CalculateAdditiveStringsFirstPercent(sol, acc) ==
    IF sol.additives = << >>
    THEN Placeholder(acc, "additive", "No additives components defined")
    ELSE AdditiveLoop(
             [sol EXCEPT !.additives =
                 [i \in DOMAIN sol.additives |->
                     [sol.additives[i] EXCEPT
                         !.liquid_percent = sol.additives[1].liquid_percent]]],
             acc, 1)

\* ForOPVSolution._calculate_additive_strings
CalculateAdditiveStrings(sol, acc) ==
    IF sol.additives = << >>
    THEN Placeholder(acc, "additive", "No additives components defined")
    ELSE AdditiveLoop(sol, acc, 1)

\* Lines 195-198: the three calls on one print_string list; an exception
\* raised by one call keeps the later ones from running.
Calculation(sol) ==
    LET a == CalculateSolventStrings(sol, NoLines)
        b == IF a.error # "none" THEN a ELSE CalculateOscStrings(sol, a)
    IN  IF b.error # "none" THEN b ELSE CalculateAdditiveStrings(sol, b)

\* normalize with calculate_solution false: line 194 is not taken.
SolutionNormalizeSkip ==
    /\ ~Truthy(solution.calculate_solution)
    /\ solutionOutcome' = "skipped"
    /\ printString' = << >>
    /\ computed' = << >>
    /\ divisions' = << >>
    /\ UNCHANGED solution
    /\ UNCHANGED << substrateVars, batchVars, restVars >>

\* normalize with calculate_solution true, running to line 203.
SolutionNormalizeCalculate ==
    /\ Truthy(solution.calculate_solution)
    /\ LET r == Calculation(solution)
       IN  /\ r.error = "none"
           /\ printString' = r.lines
           /\ computed' = r.values
           /\ divisions' = r.divs
           /\ solution' = [solution EXCEPT !.calculated_solution = Join(r.lines),
                                           !.calculate_solution = "False"]
    /\ solutionOutcome' = "returned"
    /\ UNCHANGED << substrateVars, batchVars, restVars >>

\* normalize with calculate_solution true, left by an exception: the
\* report and the trigger keep their values.
SolutionNormalizeRaise ==
    /\ Truthy(solution.calculate_solution)
    /\ LET r == Calculation(solution)
       IN  /\ r.error # "none"
           /\ printString' = r.lines
           /\ computed' = r.values
           /\ divisions' = r.divs
           /\ solutionOutcome' = r.error
    /\ UNCHANGED solution
    /\ UNCHANGED << substrateVars, batchVars, restVars >>

\* The host saves the solution entry and runs its normalize hook.
SolutionNormalize ==
    \/ SolutionNormalizeSkip
    \/ SolutionNormalizeCalculate
    \/ SolutionNormalizeRaise

\* The ELN user ticks or unticks the calculate_solution box.
SetCalculate(v) ==
    /\ solution' = [solution EXCEPT !.calculate_solution = v]
    /\ solutionOutcome' = "idle"
    /\ UNCHANGED << printString, computed, divisions >>
    /\ UNCHANGED << substrateVars, batchVars, restVars >>

\* The ELN user types another total volume.
SetVolume(v) ==
    /\ solution' = [solution EXCEPT !.total_volume = v]
    /\ solutionOutcome' = "idle"
    /\ UNCHANGED << printString, computed, divisions >>
    /\ UNCHANGED << substrateVars, batchVars, restVars >>

Ratios == {0, 1, 2}
Percents == { None, Some(Rat(5, 1)), Some(Rat(333333, 1000000)), Some(Rat(60, 1)) }
Volumes == {600, 1000}
Concentrations == {15, 10}

DefaultReport ==
    "Check \"Calculate solution\" box to calculate volume and weigths of different components."

SolutionNext ==
    \/ SolutionNormalize
    \/ \E v \in {"True", "False"} : SetCalculate(v)
    \/ \E v \in Volumes : SetVolume(v)

(***************************************************************************)
(* Substrate cleaning                                                       *)
(*                                                                          *)
(* CleaningStep is declared in substrate.py. The cleaning record and its    *)
(* normalize are commented out there (lines 309-338) and hold no procedure  *)
(* mode; they are modelled from the specification, section 4.4. Times are   *)
(* in seconds.                                                              *)
(***************************************************************************)
\* The values of the MEnum of CleaningStep.cleaning_agent.
CleaningAgents == {"Acetone", "Helmanex", "IPA", "NaOH", "UV-Ozone"}

\* A CleaningStep as constructed.
NewCleaningStep ==
    [cleaning_agent |-> "Acetone", sonication |-> FALSE, cleaning_time |-> 60]

\* The literal table of (cleaning agent, duration) pairs.
StandardProtocol ==
    << [agent |-> "Acetone", time |-> 300], [agent |-> "Hellmanex", time |-> 300],
       [agent |-> "IPA", time |-> 300], [agent |-> "NaOH", time |-> 600] >>

ProcedureModes == {"Standard", "Custom"}

\* Appending the steps of the table from row i on; assigning an agent that
\* is not a value of the MEnum raises.
RECURSIVE AppendProtocol(_, _)
AppendProtocol(st, i) ==
    IF i > Len(StandardProtocol) THEN st
    ELSE IF StandardProtocol[i].agent \notin CleaningAgents
    THEN [st EXCEPT !.outcome = "raised"]
    ELSE AppendProtocol(
             [st EXCEPT !.steps = Append(@,
                 [NewCleaningStep EXCEPT
                     !.cleaning_agent = StandardProtocol[i].agent,
                     !.cleaning_time = StandardProtocol[i].time,
                     !.sonication = TRUE])],
             i + 1)

\* normalize of a cleaning record: in mode 'Standard' the step list is
\* discarded and the steps of the table are appended.
CleaningNormalize ==
    /\ IF cleaning.procedure = "Standard"
       THEN LET r == AppendProtocol([steps |-> << >>, outcome |-> "returned"], 1)
            IN  /\ cleaning' = [cleaning EXCEPT !.steps = r.steps]
                /\ cleaningOutcome' = r.outcome
       ELSE /\ cleaningOutcome' = "returned"
            /\ UNCHANGED cleaning
    /\ UNCHANGED << substrateVars, batchVars, solutionVars, lookupVars, processingVars >>

\* The ELN user picks a procedure mode.
SetProcedure(m) ==
    /\ cleaning' = [cleaning EXCEPT !.procedure = m]
    /\ cleaningOutcome' = "idle"
    /\ UNCHANGED << substrateVars, batchVars, solutionVars, lookupVars, processingVars >>

\* The ELN user adds a step and fills it in.
AddStep(agent, sonication, time) ==
    /\ Len(cleaning.steps) < MaxSteps
    /\ cleaning' = [cleaning EXCEPT !.steps = Append(@,
           [cleaning_agent |-> agent, sonication |-> sonication,
            cleaning_time |-> time])]
    /\ cleaningOutcome' = "idle"
    /\ UNCHANGED << substrateVars, batchVars, solutionVars, lookupVars, processingVars >>

\* The ELN user removes the last step.
RemoveStep ==
    /\ cleaning.steps # << >>
    /\ cleaning' = [cleaning EXCEPT !.steps = SubSeq(@, 1, Len(@) - 1)]
    /\ cleaningOutcome' = "idle"
    /\ UNCHANGED << substrateVars, batchVars, solutionVars, lookupVars, processingVars >>

CleaningTimes == {60, 300}

CleaningNext ==
    \/ CleaningNormalize
    \/ \E m \in ProcedureModes : SetProcedure(m)
    \/ \E agent \in CleaningAgents, sonication \in BOOLEAN, time \in CleaningTimes :
          AddStep(agent, sonication, time)
    \/ RemoveStep

(***************************************************************************)
(* ForematicsSubstrateBatch.next_used_in / next_not_used_in                 *)
(*                                                                          *)
(* The lookup reads the child list and asks the host's search index; the    *)
(* target entry type is fixed. A child's reference is a substrate entry,    *)
(* an entry of another kind ("other"), unset ("unset") or a proxy whose     *)
(* resolution fails ("dangling").                                           *)
(***************************************************************************)
SubstrateEntries == {"sa", "sb"}
ChildTargets == SubstrateEntries \cup {"other", "unset", "dangling"}

NotFound == [kind |-> "None", substrate |-> "", position |-> 0]
Raised == [kind |-> "raised", substrate |-> "", position |-> 0]
NotCalled == [kind |-> "idle", substrate |-> "", position |-> 0]

\* Lines 223-226 with the condition of line 223 alone: negate is ignored.
MatchesIgnoringNegate(total, negate) == total > 0

\* Lines 223-226 with 'total > 1' for 'total > 0'.
MatchesAboveOne(total, negate) ==
    \/ total > 1 /\ ~negate
    \/ total = 0 /\ negate

\* Lines 223-226: does the answer of the index make the lookup return.
Matches(total, negate) ==
    \/ total > 0 /\ ~negate
    \/ total = 0 /\ negate

\* Line 208: isinstance(ref.reference, ForematicsSubstrate).
IsSubstrate(target) == target \in SubstrateEntries

\* Lines 205-227: the loop from child i on. m_proxy_resolve (line 207)
\* raises for a proxy that cannot be resolved.
RECURSIVE LookupFrom(_, _, _, _)
LookupFrom(children, totals, negate, i) ==
    IF i > Len(children) THEN NotFound
    ELSE IF children[i] = "dangling" THEN Raised
    ELSE IF ~IsSubstrate(children[i])
    THEN LookupFrom(children, totals, negate, i + 1)
    ELSE IF Matches(totals[children[i]], negate)
    THEN [kind |-> "substrate", substrate |-> children[i], position |-> i]
    ELSE LookupFrom(children, totals, negate, i + 1)

\* next_used_in(entry_type, negate)
next_used_in(negate) == LookupFrom(childTargets, searchTotal, negate, 1)

\* A caller runs next_used_in(entry_type).
CallNextUsedIn ==
    /\ lookup' = [lookup EXCEPT !.plain = next_used_in(FALSE)]
    /\ UNCHANGED << childTargets, searchTotal >>
    /\ UNCHANGED << substrateVars, batchVars, solutionVars, cleaningVars, processingVars >>

\* A caller runs next_not_used_in(entry_type).
CallNextNotUsedIn ==
    /\ lookup' = [lookup EXCEPT !.negated = next_used_in(TRUE)]
    /\ UNCHANGED << childTargets, searchTotal >>
    /\ UNCHANGED << substrateVars, batchVars, solutionVars, cleaningVars, processingVars >>

\* The child list gains an entry.
AppendChild(target) ==
    /\ Len(childTargets) < MaxChildren
    /\ childTargets' = Append(childTargets, target)
    /\ lookup' = [plain |-> NotCalled, negated |-> NotCalled]
    /\ UNCHANGED searchTotal
    /\ UNCHANGED << substrateVars, batchVars, solutionVars, cleaningVars, processingVars >>

\* The child list is emptied (line 243 of normalize).
ClearChildren ==
    /\ childTargets # << >>
    /\ childTargets' = << >>
    /\ lookup' = [plain |-> NotCalled, negated |-> NotCalled]
    /\ UNCHANGED searchTotal
    /\ UNCHANGED << substrateVars, batchVars, solutionVars, cleaningVars, processingVars >>

\* Entries of the target type that reference a substrate come or go, and
\* the index answers another total.
IndexChanges(sub, total) ==
    /\ searchTotal[sub] # total
    /\ searchTotal' = [searchTotal EXCEPT ![sub] = total]
    /\ lookup' = [plain |-> NotCalled, negated |-> NotCalled]
    /\ UNCHANGED childTargets
    /\ UNCHANGED << substrateVars, batchVars, solutionVars, cleaningVars, processingVars >>

LookupNext ==
    \/ CallNextUsedIn
    \/ CallNextNotUsedIn
    \/ \E target \in ChildTargets : AppendChild(target)
    \/ ClearChildren
    \/ \E sub \in SubstrateEntries, total \in 0..MaxTotal : IndexChanges(sub, total)

(***************************************************************************)
(* ForOPVProcessingStepReference.normalize                                  *)
(*                                                                          *)
(* processing.py imports the batch class under the name                     *)
(* ForOPVSubstrateBatch; the model takes it for the substrate batch class.  *)
(* A section of the archive is a processing-step reference ("step") or a    *)
(* section of another class ("other"). The substrate_batch of a step is     *)
(* unset, an unresolved MProxy or a section, and its target is a batch      *)
(* entry, an entry of another kind ("other") or nothing that resolves       *)
(* ("dangling").                                                            *)
(***************************************************************************)
BatchEntries == {"b1", "b2"}

Unset == [form |-> "unset", target |-> "none"]
Proxy(target) == [form |-> "proxy", target |-> target]
Resolved(target) == [form |-> "section", target |-> target]

BatchReferences ==
    {Unset} \cup { Proxy(t) : t \in BatchEntries \cup {"other", "dangling"} }
            \cup { Resolved(t) : t \in BatchEntries \cup {"other"} }

\* Lines 97-100 inside the try block: the object the reference stands for,
\* or the exception reading it raises. Reading .reference on a proxy
\* resolves it; a proxy that does not resolve raises, and so does the read
\* where the resolved batch has no attribute 'reference'.
ResolveBatch(ref, readsTarget) ==
    IF ref.form = "proxy"
    THEN IF ref.target = "dangling" THEN [raised |-> TRUE, batch |-> "none"]
         ELSE IF ~readsTarget THEN [raised |-> TRUE, batch |-> "none"]
         ELSE [raised |-> FALSE, batch |-> ref.target]
    ELSE [raised |-> FALSE, batch |-> ref.target]

\* Lines 96-113 without the try block: the first exception ends the
\* traversal.
ProcessSectionUncaught(section, entitiesOf, readsTarget) ==
    LET r == ResolveBatch(section.substrate_batch, readsTarget)
    IN  IF r.raised THEN [section EXCEPT !.kind = "raised"]
        ELSE IF r.batch \in BatchEntries
        THEN [section EXCEPT !.samples = entitiesOf[r.batch]]
        ELSE section

\* Lines 92-113: the body for one processing-step reference; an exception
\* of the try block is caught and the section keeps its samples.
ProcessSection(section, entitiesOf, readsTarget) ==
    LET r == ResolveBatch(section.substrate_batch, readsTarget)
    IN  IF r.raised THEN section
        ELSE IF r.batch \in BatchEntries
        THEN [section EXCEPT !.samples = entitiesOf[r.batch]]
        ELSE section

\* Lines 89-113: the traversal from section i on; st holds the sections and
\* the positions taken for processing-step references so far.
RECURSIVE Traverse(_, _, _, _)
Traverse(st, entitiesOf, readsTarget, i) ==
    IF i > Len(st.sections) \/ st.outcome # "running" THEN st
    ELSE IF st.sections[i].kind # "step"
    THEN Traverse(st, entitiesOf, readsTarget, i + 1)
    ELSE LET done == ProcessSection(st.sections[i], entitiesOf, readsTarget)
         IN  IF done.kind = "raised"
             THEN [st EXCEPT !.outcome = "raised", !.visited = Append(@, i)]
             ELSE Traverse([st EXCEPT !.sections[i] = done,
                                      !.visited = Append(@, i)],
                           entitiesOf, readsTarget, i + 1)

\* normalize of any processing-step reference of the archive: it reads
\* nothing of self and walks the whole archive.
ProcessingNormalize ==
    /\ \E i \in 1..Len(archive) : archive[i].kind = "step"
    /\ LET r == Traverse([sections |-> archive, visited |-> << >>,
                          outcome |-> "running"],
                         batchEntities, proxyReadsTarget, 1)
       IN  /\ archive' = r.sections
           /\ visited' = r.visited
           /\ processingOutcome' = IF r.outcome = "running" THEN "returned"
                                   ELSE r.outcome
    /\ archiveBefore' = archive
    /\ UNCHANGED << batchEntities, proxyReadsTarget >>
    /\ UNCHANGED << substrateVars, batchVars, solutionVars, cleaningVars, lookupVars >>

\* The ELN user points a step at another batch, or at none.
SetSubstrateBatch(i, ref) ==
    /\ i \in 1..Len(archive)
    /\ archive[i].kind = "step"
    /\ archive[i].substrate_batch # ref
    /\ archive' = [archive EXCEPT ![i].substrate_batch = ref]
    /\ processingOutcome' = "idle"
    /\ visited' = << >>
    /\ archiveBefore' = archive'
    /\ UNCHANGED << batchEntities, proxyReadsTarget >>
    /\ UNCHANGED << substrateVars, batchVars, solutionVars, cleaningVars, lookupVars >>

\* A batch's child list changes (an expansion, or an edit).
ChildListChanges(b, children) ==
    /\ batchEntities[b] # children
    /\ batchEntities' = [batchEntities EXCEPT ![b] = children]
    /\ processingOutcome' = "idle"
    /\ visited' = << >>
    /\ archiveBefore' = archive
    /\ UNCHANGED << archive, proxyReadsTarget >>
    /\ UNCHANGED << substrateVars, batchVars, solutionVars, cleaningVars, lookupVars >>

ChildLists == { << >>, << "s0", "s1" >> }
\* The samples a step holds before any normalize call: set by hand.
SampleLists == { << "old" >> }

StepSections ==
    [kind : {"step"}, substrate_batch : BatchReferences, samples : SampleLists]
OtherSection == [kind |-> "other", substrate_batch |-> Unset, samples |-> << "old" >>]

ProcessingNext ==
    \/ ProcessingNormalize
    \/ \E i \in 1..MaxSections, ref \in BatchReferences : SetSubstrateBatch(i, ref)
    \/ \E b \in BatchEntries, children \in ChildLists : ChildListChanges(b, children)

(***************************************************************************)
(* Initial states and specifications                                        *)
(***************************************************************************)
\* Two substrate entries as constructed.
SubstrateInit ==
    /\ substrates = [i \in SubstrateIds |-> NewSubstrate]
    /\ subNormalized = [i \in SubstrateIds |-> FALSE]
    /\ subBefore = [i \in SubstrateIds |-> NewSubstrate]

\* A batch entry as constructed.
BatchInit ==
    /\ batch = [name |-> None, lab_id |-> None,
                length |-> 40000, width |-> 40000, thickness |-> 675,
                supplier |-> "Ossila",
                create_substrates |-> "None",
                number_of_substrates |-> None]
    /\ entities = << >>
    /\ createCalls = << >>
    /\ nextObj = 0
    /\ batchOutcome = "idle"
    /\ lastTriggered = None

\* A cleaning record as constructed.
CleaningInit ==
    /\ cleaning = [procedure |-> "Custom", steps |-> << >>]
    /\ cleaningOutcome = "idle"

\* A solution entry holding the given components.
SolutionWith(ratiosS, ratiosD, ratiosA, percents, volume, concentration) ==
    [solvents |-> [i \in DOMAIN ratiosS |->
                      [name |-> Some("S" \o ToString(i)), ratio |-> ratiosS[i]]],
     donors |-> [i \in DOMAIN ratiosD |->
                      [name |-> Some("D" \o ToString(i)), ratio |-> ratiosD[i]]],
     acceptors |-> [i \in DOMAIN ratiosA |->
                      [name |-> Some("A" \o ToString(i)), ratio |-> ratiosA[i]]],
     additives |-> [i \in DOMAIN percents |->
                      [name |-> Some("X" \o ToString(i)),
                       liquid_percent |-> percents[i]]],
     total_volume |-> volume,
     solute_concentration |-> concentration,
     calculate_solution |-> "False",
     calculated_solution |-> DefaultReport]

SolutionGhostInit ==
    /\ printString = << >>
    /\ computed = << >>
    /\ divisions = << >>
    /\ solutionOutcome = "idle"

\* A solution entry as constructed.
SolutionInit ==
    /\ solution = SolutionWith(<< >>, << >>, << >>, << >>, 600, 15)
    /\ SolutionGhostInit

\* A solution entry the user has filled in: at most MaxComponents
\* components over the four lists.
SolutionFilledInit ==
    /\ \E a \in 0..MaxComponents :
       \E b \in 0..(MaxComponents - a) :
       \E c \in 0..(MaxComponents - a - b) :
       \E d \in 0..(MaxComponents - a - b - c) :
       \E rs \in [1..a -> Ratios], rd \in [1..b -> Ratios],
          ra \in [1..c -> Ratios], pa \in [1..d -> Percents],
          v \in Volumes, conc \in Concentrations :
            solution = SolutionWith(rs, rd, ra, pa, v, conc)
    /\ SolutionGhostInit

\* A batch without children, and an index that knows no usage.
LookupInit ==
    /\ childTargets = << >>
    /\ searchTotal = [sub \in SubstrateEntries |-> 0]
    /\ lookup = [plain |-> NotCalled, negated |-> NotCalled]

ProcessingGhostInit ==
    /\ archiveBefore = archive
    /\ visited = << >>
    /\ processingOutcome = "idle"

\* An archive without sections of interest.
ProcessingInit ==
    /\ archive = << >>
    /\ batchEntities = [b \in BatchEntries |-> << >>]
    /\ proxyReadsTarget = TRUE
    /\ ProcessingGhostInit

\* An archive of at most MaxSections sections, as parsed from the entry.
ProcessingFilledInit ==
    /\ \E n \in 0..MaxSections :
          archive \in [1..n -> StepSections \cup {OtherSection}]
    /\ batchEntities = [b \in BatchEntries |-> << >>]
    /\ proxyReadsTarget \in BOOLEAN
    /\ ProcessingGhostInit

RestInit == CleaningInit /\ LookupInit /\ ProcessingInit

Init ==
    /\ SubstrateInit
    /\ BatchInit /\ hostDeclaresDoping \in BOOLEAN
    /\ SolutionInit
    /\ RestInit

Next ==
    \/ SubstrateNext \/ BatchNext \/ SolutionNext
    \/ CleaningNext \/ LookupNext \/ ProcessingNext

Spec == Init /\ [][Next]_vars

\* The substrate entries alone.
InitSubstrate ==
    /\ SubstrateInit
    /\ BatchInit /\ hostDeclaresDoping = FALSE
    /\ SolutionInit
    /\ RestInit
SpecSubstrate == InitSubstrate /\ [][SubstrateNext]_vars

\* The batch entry alone.
InitBatch ==
    /\ SubstrateInit
    /\ BatchInit /\ hostDeclaresDoping \in BOOLEAN
    /\ SolutionInit
    /\ RestInit
SpecBatch == InitBatch /\ [][BatchNext]_vars

\* A filled-in solution entry alone.
InitSolution ==
    /\ SubstrateInit
    /\ BatchInit /\ hostDeclaresDoping = FALSE
    /\ SolutionFilledInit
    /\ RestInit
SpecSolution == InitSolution /\ [][SolutionNext]_vars

\* The cleaning record alone.
InitCleaning ==
    /\ SubstrateInit
    /\ BatchInit /\ hostDeclaresDoping = FALSE
    /\ SolutionInit
    /\ RestInit
SpecCleaning == InitCleaning /\ [][CleaningNext]_vars

\* The usage lookup alone.
InitLookup ==
    /\ SubstrateInit
    /\ BatchInit /\ hostDeclaresDoping = FALSE
    /\ SolutionInit
    /\ RestInit
SpecLookup == InitLookup /\ [][LookupNext]_vars

\* The processing-step references of one archive alone.
InitProcessing ==
    /\ SubstrateInit
    /\ BatchInit /\ hostDeclaresDoping = FALSE
    /\ SolutionInit
    /\ CleaningInit /\ LookupInit /\ ProcessingFilledInit
SpecProcessing == InitProcessing /\ [][ProcessingNext]_vars

(***************************************************************************)
(* Claims about ForematicsSubstrate.normalize                               *)
(***************************************************************************)
\* The lookup table as the specification documents it, in micrometres.
DocumentedDims(size) ==
    IF size = "Scale-up" THEN Dims(75000, 25000, 1100)
    ELSE IF size = "Spin-coating" THEN Dims(20000, 10000, 1100)
    ELSE Dims(76000, 26000, 1100)

DimsOf(s) == Dims(s.length, s.width, s.thickness)

\* C6: after normalize a substrate's (length, width, thickness) is the
\* documented triple of its size category, whatever the dimensions were
\* before: Scale-up (0.075, 0.025, 0.0011) m, Spin-coating (0.020, 0.010,
\* 0.0011) m, Glass slide (0.076, 0.026, 0.0011) m; two normalized
\* substrates of the same size category have equal dimensions.
C6_DimensionsFromSizeCategory ==
    /\ \A i \in SubstrateIds :
          subNormalized[i] =>
              DimsOf(substrates[i]) = DocumentedDims(substrates[i].substrate_size)
    /\ \A i, j \in SubstrateIds :
          (/\ subNormalized[i] /\ subNormalized[j]
           /\ substrates[i].substrate_size = substrates[j].substrate_size)
              => DimsOf(substrates[i]) = DimsOf(substrates[j])

\* C6 witness: two substrates of size 'Spin-coating' whose dimensions
\* differed from each other and from the table before normalize ran.
C6_Witness ==
    /\ subNormalized["s1"] /\ subNormalized["s2"]
    /\ substrates["s1"].substrate_size = "Spin-coating"
    /\ substrates["s2"].substrate_size = "Spin-coating"
    /\ DimsOf(subBefore["s1"]) # DimsOf(subBefore["s2"])
    /\ DimsOf(subBefore["s1"]) # DocumentedDims("Spin-coating")
    /\ DimsOf(subBefore["s2"]) # DocumentedDims("Spin-coating")

\* The coverage fields after a normalize call of substrate i.
CoverageRuleHolds(i) ==
    /\ substrates[i].substrate_coverage_pattern
           = subBefore[i].substrate_coverage_pattern
    /\ substrates[i].substrate_coverage_pattern = "None"
           => substrates[i].substrate_coverage_material = "None"
    /\ substrates[i].substrate_coverage_pattern # "None"
           => substrates[i].substrate_coverage_material
                  = subBefore[i].substrate_coverage_material

\* A normalize call of a substrate that was normalized and not edited since.
SecondNormalize(i) == subNormalized[i] /\ SubstrateNormalize(i)

\* C17: after normalize a substrate whose coverage pattern is 'None' has
\* the coverage material 'None'; with any other pattern the material is
\* the one it had before the call; and a normalize call right after a
\* normalize call changes nothing of the substrate.
C17_PatternNoneForcesMaterialNone ==
    /\ [](\A i \in SubstrateIds : subNormalized[i] => CoverageRuleHolds(i))
    /\ [][\A i \in SubstrateIds :
             SecondNormalize(i) => substrates'[i] = substrates[i]]_vars

\* C17 witness: substrate s1 had the pattern 'None' with the material
\* 'FTO' and now has the material 'None'; s2, a glass slide with the
\* pattern 'Patterned', kept its material 'FTO' in a normalize call that
\* followed a normalize call and changed nothing.
C17_Witness ==
    /\ subNormalized["s1"] /\ subNormalized["s2"]
    /\ substrates["s1"].substrate_coverage_pattern = "None"
    /\ subBefore["s1"].substrate_coverage_material = "FTO"
    /\ substrates["s1"].substrate_coverage_material = "None"
    /\ substrates["s2"].substrate_coverage_pattern = "Patterned"
    /\ substrates["s2"].substrate_coverage_material = "FTO"
    /\ substrates["s2"].substrate_size = "Glass slide"
    /\ subBefore["s2"] = substrates["s2"]

(***************************************************************************)
(* Claims about ForematicsSubstrateBatch.normalize                          *)
(***************************************************************************)
\* The latest operation on the batch was a normalize call that found the
\* create trigger true.
TriggeredCallJustMade ==
    batchOutcome \in {"returned", "AttributeError", "TypeError", "PersistenceError"}

\* The batch holds a count N >= 0 and an identifier prefix.
HasCountAndPrefix ==
    /\ batch.number_of_substrates # None
    /\ batch.number_of_substrates[1] >= 0
    /\ batch.lab_id # None

\* C1: a normalize call made with the create trigger true on a batch with
\* count N >= 0 and identifier prefix P returns with exactly N entries in
\* the child list, identified P-0, P-1, ..., P-(N-1) in list order, and
\* with the trigger reading false.
C1_CreateReturnsPrefixedChildren ==
    (TriggeredCallJustMade /\ HasCountAndPrefix) =>
        /\ batchOutcome = "returned"
        /\ Len(entities) = batch.number_of_substrates[1]
        /\ \A i \in 0..(batch.number_of_substrates[1] - 1) :
              entities[i + 1].lab_id = batch.lab_id[1] \o "-" \o ToString(i)
        /\ batch.create_substrates = "False"

\* C2: every normalize call that acts on a true create trigger leaves the
\* trigger false, and a normalize call that finds the trigger not set
\* creates no child record and leaves the child list as it was.
C2_CreateIdempotentPerTrigger ==
    [][BatchNormalize =>
          /\ Truthy(batch.create_substrates)
                => batch'.create_substrates = "False"
          /\ ~Truthy(batch.create_substrates)
                => (entities' = entities /\ createCalls' = << >>)]_vars

\* C3: after any sequence of normalize calls with the trigger and the count
\* edited in between, the child list holds as many entries as the count had
\* at the latest triggered call, and no entry that was in the list before
\* that call is still in it.
C3_ExpansionReplacesChildList ==
    (/\ lastTriggered # None
     /\ lastTriggered[1].count # None
     /\ lastTriggered[1].count[1] >= 0) =>
        /\ Len(entities) = lastTriggered[1].count[1]
        /\ \A k \in 1..Len(entities) : entities[k].obj \notin lastTriggered[1].before

\* C4: after a triggered normalize call, child i of the expansion has the
\* name '<batch name> i' and the identifier '<batch lab_id>-i', names and
\* identifiers are pairwise distinct, there is one create_archive call per
\* index, made under the file name '<child lab_id>.archive.json', and entry
\* i of the child list refers to the record of call i and carries the
\* child's name and identifier.
C4_ChildrenNamedAndPersistedPerIndex ==
    TriggeredCallJustMade =>
        /\ Len(createCalls) = Len(entities)
        /\ batchOutcome = "returned"
              => Len(createCalls) = RangeLen(batch.number_of_substrates[1])
        /\ \A k \in 1..Len(createCalls) :
              LET child == createCalls[k].entity
              IN  /\ child.name = Some(PyStr(batch.name) \o " " \o ToString(k - 1))
                  /\ child.lab_id = Some(PyStr(batch.lab_id) \o "-" \o ToString(k - 1))
                  /\ createCalls[k].file_name = child.lab_id[1] \o ".archive.json"
                  /\ entities[k].reference = [mainfile |-> createCalls[k].file_name]
                  /\ entities[k].name = child.name[1]
                  /\ entities[k].lab_id = child.lab_id[1]
        /\ \A j, k \in 1..Len(createCalls) :
              j # k => /\ createCalls[j].entity.name # createCalls[k].entity.name
                       /\ createCalls[j].entity.lab_id # createCalls[k].entity.lab_id
                       /\ createCalls[j].file_name # createCalls[k].file_name
                       /\ entities[j].reference # entities[k].reference

\* C4 witness: an expansion that returned with three children.
C4_Witness ==
    /\ batchOutcome = "returned"
    /\ batch.name # None /\ batch.lab_id # None
    /\ Len(entities) = 3
    /\ Len(createCalls) = 3

\* C5: the children persisted by one expansion all carry the same (length,
\* width, thickness), and it is the triple of the batch.
C5_ChildrenCarryBatchDimensions ==
    batchOutcome = "returned" =>
        \A k \in 1..Len(createCalls) :
            DimsOf(createCalls[k].entity) = DimsOf(batch)

\* The reference sections of the child list.
EntityObjects(list) == { list[j].obj : j \in 1..Len(list) }

\* What the failure of create_archive for child k leaves behind.
FailureLeavesPrefix(k) ==
    /\ batchOutcome' = "PersistenceError"
    /\ batch' = batch
    /\ Truthy(batch'.create_substrates)
    /\ Len(entities') = k
    /\ k < batch.number_of_substrates[1]
    /\ \A j \in 1..k :
          /\ entities'[j].lab_id = ChildLabId(batch, j - 1)
          /\ entities'[j].obj \notin EntityObjects(entities)
    /\ Len(createCalls') = k
    /\ \A j \in 1..k :
          createCalls'[j].file_name = FileName(ChildLabId(batch, j - 1))

\* A normalize call that follows one a persistence error ended.
NormalizeAfterFailure == batchOutcome = "PersistenceError" /\ BatchNormalize

\* C15: when create_archive fails for child k of an expansion, normalize is
\* left by the error with no call repeated, the child list holds exactly the
\* k references made for the children 0 .. k-1, the create trigger is still
\* true, and the next normalize call runs the expansion again on an emptied
\* list: no reference of the failed expansion is in the list afterwards and
\* the children are created from index 0 on.
C15_PersistenceErrorPropagates ==
    [][/\ \A k \in 0..MaxCount :
             BatchNormalizePersistenceError(k) => FailureLeavesPrefix(k)
       /\ NormalizeAfterFailure =>
             /\ batchOutcome' \in {"returned", "PersistenceError"}
             /\ EntityObjects(entities') \cap EntityObjects(entities) = {}
             /\ \A j \in 1..Len(entities') :
                   entities'[j].lab_id = ChildLabId(batch, j - 1)]_vars

\* C15 witness: of three children the third fails; the list, which held
\* other references before the call, holds the two made before the failure
\* and the trigger is still true.
C15_Witness ==
    /\ batchOutcome = "PersistenceError"
    /\ batch.number_of_substrates = Some(3)
    /\ Truthy(batch.create_substrates)
    /\ Len(entities) = 2
    /\ Len(createCalls) = 2
    /\ lastTriggered[1].before # {}

(***************************************************************************)
(* Claims about ForOPVSolution.normalize                                    *)
(***************************************************************************)
\* The latest operation on the solution was a normalize call that found the
\* calculate trigger true.
CalculationJustRun == solutionOutcome \in {"returned", "TypeError"}

\* The number of lines a list of n components contributes.
LinesFor(n) == IF n = 0 THEN 1 ELSE n

\* The positions before the first line of each list in print_string.
DonorOffset == LinesFor(Len(solution.solvents))
AcceptorOffset == DonorOffset + LinesFor(Len(solution.donors))
AdditiveOffset == AcceptorOffset + LinesFor(Len(solution.acceptors))

\* s is q rounded to six significant digits: s * 10^(5-e) is a whole number
\* no further than 1/2 from q * 10^(5-e), where 10^e <= q < 10^(e+1).
RoundedAt(scaledS, scaledQ) ==
    /\ scaledS.den = 1
    /\ 2 * scaledS.num * scaledQ.den - 2 * scaledQ.num <= scaledQ.den
    /\ 2 * scaledQ.num - 2 * scaledS.num * scaledQ.den <= scaledQ.den

SixDigitRounding(s, q) ==
    IF q.num = 0 THEN s = q
    ELSE RoundedAt(Scale10(s, 5 - Exp10(q)), Scale10(q, 5 - Exp10(q)))

\* Line k of print_string reports the quantity q of component i of a list:
\* q is the quantity computed for it, and the line gives the component's
\* name and q written with six significant digits ('.6g') and the unit.
Reports(k, kind, i, label, name, q, unit) ==
    /\ k <= Len(printString)
    /\ computed[k] = [kind |-> kind, index |-> i, value |-> q]
    /\ printString[k] = label \o ": " \o name \o " -> " \o Fmt6g(q) \o " " \o unit
    /\ SixDigitRounding(Shown(computed[k].value), q)

\* Line k of print_string is the line of a division by zero.
ReportsNan(k, kind, i, label, name, unit) ==
    /\ k <= Len(printString)
    /\ computed[k] = [kind |-> kind, index |-> i, value |-> Rat(0, 0)]
    /\ printString[k] = label \o ": " \o name \o " -> nan " \o unit

\* total_volume * ratio_i / (sum of the solvent ratios), in ml.
SolventShare(i) ==
    Rat(solution.total_volume * solution.solvents[i].ratio,
        SumRatios(solution.solvents) * 1000)

CombinedRatio == SumRatios(solution.donors) + SumRatios(solution.acceptors)

OscShare(component) ==
    Rat(solution.solute_concentration * solution.total_volume * component.ratio,
        CombinedRatio * 1000)

AdditiveShare(additive) ==
    Rat(solution.total_volume * additive.liquid_percent[1].num,
        100 * additive.liquid_percent[1].den)

LinesOfKind(kind) == { k \in 1..Len(computed) : computed[k].kind = kind }

\* The list of the given kind has exactly one line, the given text, and
\* no division was made for it.
OnlyPlaceholder(kind, text) ==
    /\ Cardinality(LinesOfKind(kind)) = 1
    /\ \A k \in LinesOfKind(kind) : printString[k] = text /\ computed[k].index = 0
    /\ \A d \in 1..Len(divisions) : divisions[d].kind # kind

\* C10: in a calculation, each of the four lists that is empty contributes
\* exactly one line, its placeholder, and no division is performed for it,
\* whatever the other three lists hold; donors and acceptors both empty
\* (combined ratio sum 0) give the two placeholders and no division.
C10_EmptyListGivesOnePlaceholder ==
    CalculationJustRun =>
        /\ solution.solvents = << >>
              => OnlyPlaceholder("solvent", "No solvent components defined")
        /\ solution.donors = << >>
              => OnlyPlaceholder("donor", "No donor components defined")
        /\ solution.acceptors = << >>
              => OnlyPlaceholder("acceptor", "No acceptor components defined")
        /\ solution.additives = << >>
              => OnlyPlaceholder("additive", "No additives components defined")
        /\ Len(printString) = Len(computed)

\* C10 witness: donors and acceptors both empty beside two solvents and an
\* additive.
C10_Witness ==
    /\ solutionOutcome = "returned"
    /\ Len(solution.solvents) = 2 /\ Len(solution.additives) = 1
    /\ solution.donors = << >> /\ solution.acceptors = << >>
    /\ CombinedRatio = 0
    /\ printString[3] = "No donor components defined"
    /\ printString[4] = "No acceptor components defined"
    /\ Len(printString) = 5
    /\ \A d \in 1..Len(divisions) : divisions[d].kind \in {"solvent", "additive"}

\* The place of a list in the report.
KindRank(kind) ==
    IF kind = "solvent" THEN 1
    ELSE IF kind = "donor" THEN 2
    ELSE IF kind = "acceptor" THEN 3
    ELSE 4

\* The lines of a calculation come list by list: solvents, donors,
\* acceptors, additives, every list with at least one line.
LinesInListOrder(values) ==
    /\ \A j, k \in 1..Len(values) :
          j < k => KindRank(values[j].kind) <= KindRank(values[k].kind)
    /\ \A kind \in {"solvent", "donor", "acceptor", "additive"} :
          \E k \in 1..Len(values) : values[k].kind = kind

\* The fields a calculation only reads.
SolutionInputs(sol) ==
    << sol.solvents, sol.donors, sol.acceptors, sol.additives,
       sol.total_volume, sol.solute_concentration >>

\* C11: a normalize call with the calculate trigger true replaces the report
\* string with the join of the solvent, donor, acceptor and additive lines,
\* in that order, and returns with the trigger false; a call with the
\* trigger false leaves the report and the trigger unchanged; both leave
\* the component lists, the total volume and the concentration unchanged.
C11_CalculationIsSingleShot ==
    [][SolutionNormalize =>
          /\ SolutionInputs(solution') = SolutionInputs(solution)
          /\ IF Truthy(solution.calculate_solution)
             THEN /\ solutionOutcome' = "returned"
                  /\ LinesInListOrder(computed')
                  /\ solution'.calculated_solution = Join(printString')
                  /\ solution'.calculate_solution = "False"
             ELSE /\ solution'.calculated_solution = solution.calculated_solution
                  /\ solution'.calculate_solution = solution.calculate_solution]_vars

\* What holds of C11 when no exception ends the call.
C11_SingleShotWhenReturning ==
    [][(SolutionNormalize /\ solutionOutcome' # "TypeError") =>
          /\ SolutionInputs(solution') = SolutionInputs(solution)
          /\ IF Truthy(solution.calculate_solution)
             THEN /\ LinesInListOrder(computed')
                  /\ solution'.calculated_solution = Join(printString')
                  /\ solution'.calculate_solution = "False"
             ELSE solution' = solution]_vars

(***************************************************************************)
(* Claims about the cleaning record                                         *)
(***************************************************************************)
\* The step list the specification documents for mode 'Standard'.
DocumentedStandardSteps ==
    << [cleaning_agent |-> "Acetone", sonication |-> TRUE, cleaning_time |-> 300],
       [cleaning_agent |-> "Hellmanex", sonication |-> TRUE, cleaning_time |-> 300],
       [cleaning_agent |-> "IPA", sonication |-> TRUE, cleaning_time |-> 300],
       [cleaning_agent |-> "NaOH", sonication |-> TRUE, cleaning_time |-> 600] >>

\* C12: normalizing a cleaning record whose procedure mode is 'Standard'
\* returns with exactly the 4 steps (Acetone, 300 s), (Hellmanex, 300 s),
\* (IPA, 300 s), (NaOH, 600 s), each with sonication, whatever the step list
\* was before and however often normalize runs.
C12_StandardCleaningYieldsFourSteps ==
    [][(CleaningNormalize /\ cleaning.procedure = "Standard") =>
          /\ cleaningOutcome' = "returned"
          /\ cleaning'.steps = DocumentedStandardSteps]_vars

\* Every step of a cleaning record holds a value of the declared MEnum, so
\* no step list can be the documented one.
C12_StepsHoldDeclaredAgents ==
    /\ \A k \in 1..Len(cleaning.steps) :
          cleaning.steps[k].cleaning_agent \in CleaningAgents
    /\ cleaning.steps # DocumentedStandardSteps

(***************************************************************************)
(* Claims about the usage lookup                                            *)
(***************************************************************************)
\* Child k resolves to a substrate that the index reports as referenced by
\* at least one record of the target type (negated mode: by none).
Satisfies(k, negate) ==
    /\ childTargets[k] \in SubstrateEntries
    /\ IF negate THEN searchTotal[childTargets[k]] = 0
                 ELSE searchTotal[childTargets[k]] >= 1

FirstSatisfying(k, negate) ==
    /\ k \in 1..Len(childTargets)
    /\ Satisfies(k, negate)
    /\ \A j \in 1..(k - 1) : ~Satisfies(j, negate)

\* The result r of a lookup is the one C13 states.
ReturnsAsClaimed(r, negate) ==
    r.kind # "idle" =>
        /\ r.kind \in {"substrate", "None"}
        /\ r.kind = "None" <=> ~\E k \in 1..Len(childTargets) : Satisfies(k, negate)
        /\ r.kind = "substrate" =>
              /\ FirstSatisfying(r.position, negate)
              /\ r.substrate = childTargets[r.position]

NoneDanglingUpTo(k) == \A j \in 1..k : j <= Len(childTargets) => childTargets[j] # "dangling"

ReturnsOrRaises(r, negate) ==
    r.kind # "idle" =>
        /\ r.kind \in {"substrate", "None", "raised"}
        /\ r.kind = "None" <=>
              /\ NoneDanglingUpTo(Len(childTargets))
              /\ ~\E k \in 1..Len(childTargets) : Satisfies(k, negate)
        /\ r.kind = "substrate" =>
              /\ FirstSatisfying(r.position, negate)
              /\ NoneDanglingUpTo(r.position)
              /\ r.substrate = childTargets[r.position]
              /\ r.substrate \in { childTargets[k] : k \in 1..Len(childTargets) }
        /\ r.kind = "raised" <=>
              \E d \in 1..Len(childTargets) :
                  /\ childTargets[d] = "dangling"
                  /\ \A j \in 1..(d - 1) : ~Satisfies(j, negate)

BothLookupsRun == lookup.plain.kind # "idle" /\ lookup.negated.kind # "idle"

ResolvesToSubstrate(k) == childTargets[k] \in SubstrateEntries

NeverTheSameSubstrate ==
    ~(/\ lookup.plain.kind = "substrate"
      /\ lookup.negated.kind = "substrate"
      /\ lookup.plain.substrate = lookup.negated.substrate)

ProcessingCallJustMade == processingOutcome # "idle"

StepPositions == { i \in 1..Len(archive) : archive[i].kind = "step" }

\* Resolving the substrate_batch of section i raises.
ResolutionFails(i) ==
    archiveBefore[i].substrate_batch = Proxy("dangling")

\* The substrate_batch of section i is a batch section that needs no
\* resolution.
HoldsBatchSection(i) ==
    /\ archiveBefore[i].substrate_batch.form = "section"
    /\ archiveBefore[i].substrate_batch.target \in BatchEntries

\* C14: a normalize call returns, whatever references fail to resolve; a
\* step whose substrate_batch fails to resolve keeps its samples; every
\* processing-step reference of the archive is visited, and the steps that
\* hold a batch are given that batch's child list.
C14_ResolutionFailuresIgnored ==
    ProcessingCallJustMade =>
        /\ processingOutcome = "returned"
        /\ \A i \in StepPositions :
              ResolutionFails(i) => archive[i].samples = archiveBefore[i].samples
        /\ { visited[k] : k \in 1..Len(visited) } = StepPositions
        /\ Len(visited) = Cardinality(StepPositions)
        /\ \A i \in StepPositions :
              HoldsBatchSection(i) =>
                  archive[i].samples
                      = batchEntities[archiveBefore[i].substrate_batch.target]
        /\ \A i \in 1..Len(archive) :
              archive[i].substrate_batch = archiveBefore[i].substrate_batch

\* C14 witness: the first step's reference fails to resolve and it keeps
\* its samples; the step after it is given the two children of its batch.
C14_Witness ==
    /\ processingOutcome = "returned"
    /\ Len(archive) = 2
    /\ archive[1].kind = "step" /\ archive[2].kind = "step"
    /\ archive[1].substrate_batch = Proxy("dangling")
    /\ archive[1].samples = << "old" >>
    /\ archive[2].substrate_batch = Resolved("b1")
    /\ archiveBefore[2].samples = << "old" >>
    /\ archive[2].samples = << "s0", "s1" >>
    /\ visited = << 1, 2 >>

\* The substrate_batch of section i resolves to a substrate batch.
ResolvesToBatch(i) == archiveBefore[i].substrate_batch.target \in BatchEntries

\* The substrate_batch of section i is unset or resolves to something that
\* is not a substrate batch.
UnsetOrOtherKind(i) == archiveBefore[i].substrate_batch.target \in {"none", "other"}

\* C16: after normalize returns, every processing-step reference of the
\* archive whose substrate_batch resolves to a substrate batch has that
\* batch's current child list as its samples (the empty list for a batch
\* without children), and the steps whose substrate_batch is unset or
\* resolves to something else keep their samples.
C16_SamplesFollowBatchChildren ==
    processingOutcome = "returned" =>
        \A i \in StepPositions :
            /\ ResolvesToBatch(i) =>
                  archive[i].samples
                      = batchEntities[archiveBefore[i].substrate_batch.target]
            /\ UnsetOrOtherKind(i) => archive[i].samples = archiveBefore[i].samples

\* What holds of C16 where reading .reference on a proxy gives its target.
C16_SamplesFollowWhenProxyReads ==
    proxyReadsTarget => C16_SamplesFollowBatchChildren

(***************************************************************************)
(* Claims about the divisions and the totals of the solution calculation   *)
(***************************************************************************)
\* C18: no division of the solution calculation has a zero divisor, not
\* even with a non-empty solvent list whose ratios add up to 0 or with
\* donors and acceptors whose ratios together add up to 0.
C18_NoDivisionByZeroRatioSum ==
    \A d \in 1..Len(divisions) : divisions[d].divisor # 0

\* What holds of C18: a zero divisor is the ratio sum of a non-empty list,
\* and the additive volumes are never divided by zero.
C18_ZeroDivisorIsZeroRatioSum ==
    \A d \in 1..Len(divisions) :
        divisions[d].divisor = 0 =>
            \/ /\ divisions[d].kind = "solvent"
               /\ solution.solvents # << >>
               /\ SumRatios(solution.solvents) = 0
            \/ /\ divisions[d].kind \in {"donor", "acceptor"}
               /\ SumRatios(solution.donors) + SumRatios(solution.acceptors) = 0

\* A calculation that divided by a ratio sum of zero and returned.
C18_DividedByZero ==
    /\ solutionOutcome = "returned"
    /\ \E d \in 1..Len(divisions) : divisions[d].divisor = 0

\* The sum of two finite rationals.
RatAdd(a, b) == Rat(a.num * b.den + b.num * a.den, a.den * b.den)

\* The sum of the quantities computed for the lines of the given kinds.
RECURSIVE SumComputed(_, _)
SumComputed(values, kinds) ==
    IF values = << >> THEN Rat(0, 1)
    ELSE IF Head(values).kind \in kinds
    THEN RatAdd(Head(values).value, SumComputed(Tail(values), kinds))
    ELSE SumComputed(Tail(values), kinds)

\* C19: after a calculation over solvents with a positive ratio sum the
\* computed solvent volumes add up to total_volume (in ml), and over
\* donors and acceptors with a positive combined ratio sum the computed
\* masses add up to solute_concentration * total_volume (in mg); the
\* additive volumes are held to no total.
C19_AllocationConservesTotals ==
    CalculationJustRun =>
        /\ SumRatios(solution.solvents) > 0 =>
              SumComputed(computed, {"solvent"}) = Rat(solution.total_volume, 1000)
        /\ CombinedRatio > 0 =>
              SumComputed(computed, {"donor", "acceptor"})
                  = Rat(solution.solute_concentration * solution.total_volume, 1000)

\* C19 witness: one solvent of ratio 2, a donor of ratio 1 and an acceptor
\* of ratio 2 in 0.6 ml at 15 mg/ml: 0.6 ml of solvent, 3 mg and 6 mg of
\* the 9 mg.
C19_Witness ==
    /\ solutionOutcome = "returned"
    /\ solution.total_volume = 600 /\ solution.solute_concentration = 15
    /\ Len(solution.solvents) = 1 /\ solution.solvents[1].ratio = 2
    /\ Len(solution.donors) = 1 /\ solution.donors[1].ratio = 1
    /\ Len(solution.acceptors) = 1 /\ solution.acceptors[1].ratio = 2
    /\ computed[1].value = Rat(600, 1000)
    /\ computed[2].value = Rat(3, 1)
    /\ computed[3].value = Rat(6, 1)

\* Two additives of 60 % each: their volumes add up to more than
\* total_volume.
C19_AdditivesExceedTotal ==
    /\ solutionOutcome = "returned"
    /\ Len(solution.additives) = 2
    /\ SumComputed(computed, {"additive"})
           = Rat(12 * solution.total_volume, 10)

====
